---- MODULE Spec2Model ----
(***************************************************************************)
(* Model of cloud_monitor.py: a Streamlit page that shows month-to-date    *)
(* returns of a list of Japanese holdings against Nikkei 225 and TOPIX.    *)
(*                                                                         *)
(* Text is a sequence of one-character strings.  Prices are integers (yen  *)
(* ticks), returns are exact rationals <<numerator, denominator>> with a   *)
(* positive denominator, in lowest terms.  A provider call answers with    *)
(* [status, rows]: status "raise" is an exception, "ok" carries the rows   *)
(* of the returned data frame (possibly none).                             *)
(***************************************************************************)
EXTENDS Integers, Sequences, FiniteSets, TLC

VARIABLES
    query_params,   \* st.query_params, a function whose domain is {} or {"codes"}
    initial_value,  \* initial_value of the current script run
    user_input,     \* value of the holdings text area
    leverage,       \* value of the leverage number input
    pc,             \* "idle": the run is over; "stocks": inside the loop of fetch_stock_data
    clicked,        \* st.button returned True in the current run
    provider,       \* responses the data provider served during the current run
    nikkei_data,    \* fetch_index_data("^N225", start_str) of the current run
    topix_data,     \* fetch_index_data("^TOPX", start_str) of the current run
    i,              \* number of codes the loop of fetch_stock_data has visited
    data_list,      \* data_list of fetch_stock_data
    progress,       \* last value given to progress_bar.progress, as <<num, den>>
    screen,         \* what the current run rendered
    probe           \* a call of one fetch function on its own: its input and result

vars == <<query_params, initial_value, user_input, leverage, pc, clicked, provider,
          nikkei_data, topix_data, i, data_list, progress, screen, probe>>

pageVars == <<query_params, initial_value, user_input, leverage, pc, clicked, provider,
              nikkei_data, topix_data, i, data_list, progress, screen>>

-----------------------------------------------------------------------------
(* Bounds of the model *)

\* longest text the user types into the text area
MaxLen == 3
\* trading days of the previous month that the provider's histories reach back to
PrevDays == 2
\* 5-minute bars in an intraday answer
MaxSlots == 2
\* day of the month of datetime.now(jp_tz): today, the latest trading day
now == 2

-----------------------------------------------------------------------------
(* Exact rational arithmetic (Python float arithmetic without rounding) *)

Abs(n) == IF n < 0 THEN -n ELSE n

RECURSIVE GCD(_, _)
GCD(a, b) == IF b = 0 THEN a ELSE GCD(b, a % b)

Rat(n, d) ==
    LET s == IF d < 0 THEN -1 ELSE 1
        g == GCD(Abs(n), Abs(d))
    IN  <<(s * n) \div g, (s * d) \div g>>

Zero == <<0, 1>>
RAdd(a, b) == Rat(a[1] * b[2] + b[1] * a[2], a[2] * b[2])
RSub(a, b) == Rat(a[1] * b[2] - b[1] * a[2], a[2] * b[2])
RMul(a, b) == Rat(a[1] * b[1], a[2] * b[2])
RGreater(a, b) == a[1] * b[2] > b[1] * a[2]

RECURSIVE RSum(_)
RSum(s) == IF s = <<>> THEN Zero ELSE RAdd(Head(s), RSum(Tail(s)))

\* Series.mean()
Mean(s) == LET t == RSum(s) IN Rat(t[1], t[2] * Len(s))

\* f"{x:+.2%}": x as a signed number of hundredths of a percent, rounded half to even
FormatPct(x) ==
    LET n == x[1] * 10000
        d == x[2]
        q == n \div d
        r == n % d
    IN  IF 2 * r < d THEN q
        ELSE IF 2 * r > d THEN q + 1
        ELSE IF q % 2 = 0 THEN q ELSE q + 1

-----------------------------------------------------------------------------
(* Text *)

NL  == "\n"
FWC == "U+FF0C"
Whitespace == {" ", NL, "\t", "\r"}

\* "7203, 9984, 8035"
FALLBACK_CODES ==
    <<"7", "2", "0", "3", ",", " ", "9", "9", "8", "4", ",", " ", "8", "0", "3", "5">>

\* str.replace for a one-character pattern
Replace(s, old, new) == [k \in 1..Len(s) |-> IF s[k] = old THEN new ELSE s[k]]

\* str.split(sep) for a one-character separator: always at least one piece
RECURSIVE Split(_, _)
Split(s, sep) ==
    IF \A k \in 1..Len(s) : s[k] # sep THEN <<s>>
    ELSE LET p == CHOOSE k \in 1..Len(s) :
                      s[k] = sep /\ \A j \in 1..(k - 1) : s[j] # sep
         IN  <<SubSeq(s, 1, p - 1)>> \o Split(SubSeq(s, p + 1, Len(s)), sep)

\* str.strip()
RECURSIVE Strip(_)
Strip(s) ==
    IF s = <<>> THEN s
    ELSE IF Head(s) \in Whitespace THEN Strip(Tail(s))
    ELSE IF s[Len(s)] \in Whitespace THEN Strip(SubSeq(s, 1, Len(s) - 1))
    ELSE s

\* sep.join(parts)
RECURSIVE Join(_, _)
Join(parts, sep) ==
    IF parts = <<>> THEN <<>>
    ELSE IF Len(parts) = 1 THEN parts[1]
    ELSE parts[1] \o <<sep>> \o Join(Tail(parts), sep)

\* str.endswith
EndsWith(s, suffix) ==
    /\ Len(s) >= Len(suffix)
    /\ SubSeq(s, Len(s) - Len(suffix) + 1, Len(s)) = suffix

\* [c.strip() for c in pieces if c.strip()]
RECURSIVE StripNonBlank(_)
StripNonBlank(pieces) ==
    IF pieces = <<>> THEN <<>>
    ELSE LET c == Strip(Head(pieces))
         IN  (IF c # <<>> THEN <<c>> ELSE <<>>) \o StripNonBlank(Tail(pieces))

\* the cleaning without its "if c.strip()" filter
CleanKeepingBlanks(text) ==
    LET pieces == Split(Replace(Replace(text, NL, ","), FWC, ","), ",")
    IN  [k \in 1..Len(pieces) |-> Strip(pieces[k])]

clean_codes_list(text) ==
    StripNonBlank(Split(Replace(Replace(text, NL, ","), FWC, ","), ","))

clean_codes_str(text) == Join(clean_codes_list(text), ",")

\* f"{code}.T" if not code.endswith(".T") else code
TickerSymbol(code) == IF EndsWith(code, <<".", "T">>) THEN code ELSE code \o <<".", "T">>

-----------------------------------------------------------------------------
(* The data provider (yfinance).  Days are numbered by day of the current    *)
(* Tokyo month: day 1 is the first day of the month and its first trading    *)
(* day, days <= 0 are the last trading days of the previous month.           *)

\* now.replace(day=1, ...)
start_of_month == 1
\* period="5d"
FiveDays == 5

FirstDay == start_of_month - PrevDays
Days == FirstDay..now

OpenOf(d) == 1000 + 10 * d
CloseOf(d) == OpenOf(d) + 5
\* close of the s-th 5-minute bar of day d
IntradayCloseOf(d, s) == OpenOf(d) + s

Bar(d) == [day |-> d, Open |-> OpenOf(d), Close |-> CloseOf(d)]
Window(a, b) == [k \in 1..(b - a + 1) |-> Bar(a + k - 1)]
IntradayBars(d, n) == [s \in 1..n |-> [day |-> d, Close |-> IntradayCloseOf(d, s)]]

\* the last day with a published daily bar: today's bar may not be out yet
LastDays == {now - 1, now}

\* history(period="5d") when the last published daily bar is that of day last
Hist5d(last) ==
    {<<>>} \cup {Window(a, last) : a \in {d \in Days : d <= last /\ last - d + 1 <= FiveDays}}
\* history(start=start_str): the rows from the first day of the month on
HistStart(last) == {<<>>, Window(start_of_month, last)}
\* history(period="1mo"): the rows from one month ago on
Hist1mo(last) == {<<>>} \cup {Window(a, last) : a \in FirstDay..(start_of_month - 1)}
\* history(period="1d", interval="5m"): the 5-minute bars of the latest session
HistIntraday(last) ==
    {<<>>} \cup {IntradayBars(d, n) : d \in {x \in LastDays : x >= last}, n \in 1..MaxSlots}

Raised == [status |-> "raise", rows |-> <<>>]
Ok(rows) == [status |-> "ok", rows |-> rows]
Answers(H) == {Raised} \cup {Ok(h) : h \in H}

\* the answers to the calls of get_current_price
PriceResponses ==
    UNION {[intraday : Answers(HistIntraday(last)), daily : Answers(Hist5d(last))] :
             last \in LastDays}
\* the answers to the calls of one iteration of fetch_stock_data
StockResponses ==
    UNION {[start : Answers(HistStart(last)), month : Answers(Hist1mo(last)),
            intraday : Answers(HistIntraday(last)), daily : Answers(Hist5d(last))] :
             last \in LastDays}
\* the answers to the calls of fetch_index_data: the two 5-day histories, fetched
\* moments apart, hold the same rows when both have rows
IndexResponses ==
    {R \in UNION {[recent : Answers(Hist5d(last)), start : Answers(HistStart(last)),
                   month : Answers(Hist1mo(last)),
                   intraday : Answers(HistIntraday(last)), daily : Answers(Hist5d(last))] :
                    last \in LastDays} :
        (R.recent.rows # <<>> /\ R.daily.rows # <<>>) => R.recent.rows = R.daily.rows}

Last(s) == s[Len(s)]

-----------------------------------------------------------------------------
(* The fetch functions *)

\* a get_current_price that asks for the 5-day history first
GetCurrentPriceDailyFirst(R) ==
    IF R.daily.status = "raise" THEN 0
    ELSE IF R.daily.rows # <<>> THEN Last(R.daily.rows).Close
    ELSE IF R.intraday.status = "raise" THEN 0
    ELSE IF R.intraday.rows # <<>> THEN Last(R.intraday.rows).Close
    ELSE 0

get_current_price(R) ==
    IF R.intraday.status = "raise" THEN 0
    ELSE IF R.intraday.rows # <<>> THEN Last(R.intraday.rows).Close
    ELSE IF R.daily.status = "raise" THEN 0
    ELSE IF R.daily.rows # <<>> THEN Last(R.daily.rows).Close
    ELSE 0

\* the try block of fetch_index_data / fetch_stock_data raises
HistoryRaises(R) ==
    \/ R.start.status = "raise"
    \/ R.start.rows = <<>> /\ R.month.status = "raise"

\* hist_mtd / hist: the month-start history, or the 1-month history when that is empty
MonthHistory(R) == IF R.start.rows = <<>> THEN R.month.rows ELSE R.start.rows

fetch_index_data(R) ==
    IF R.recent.status = "raise" \/ HistoryRaises(R) THEN [valid |-> FALSE]
    ELSE
      LET hist_recent == R.recent.rows
          hist_mtd == MonthHistory(R)
          p == get_current_price(R)
          current_price == IF p = 0 /\ hist_recent # <<>>
                           THEN Last(hist_recent).Close ELSE p
          daily_ret == IF Len(hist_recent) >= 2
                       THEN LET prev_close == hist_recent[Len(hist_recent) - 1].Close
                            IN  Rat(current_price - prev_close, prev_close)
                       ELSE Zero
          mtd_ret == IF hist_mtd # <<>>
                     THEN LET month_open == hist_mtd[1].Open
                          IN  Rat(current_price - month_open, month_open)
                     ELSE Zero
      IN  [daily_ret |-> daily_ret, mtd_ret |-> mtd_ret,
           price |-> current_price, valid |-> TRUE]

\* hist.index[0].strftime('%m-%d'): month and day of a row
MonthDay(d) == IF d >= start_of_month THEN <<"this month", d>> ELSE <<"previous month", d>>
NoDate == <<"N/A", 0>>

\* the loop body with a get_current_price whose exceptions reach the caller's except
StockRowsPropagating(code, R) ==
    IF HistoryRaises(R) \/ R.intraday.status = "raise" THEN <<>>
    ELSE
      LET hist == MonthHistory(R)
          p == get_current_price(R)
          current_price == IF p = 0 /\ hist # <<>> THEN Last(hist).Close ELSE p
          buy_price == IF hist # <<>> THEN hist[1].Open ELSE 0
          buy_date == IF hist # <<>> THEN MonthDay(hist[1].day) ELSE NoDate
          ret == IF buy_price # 0 THEN Rat(current_price - buy_price, buy_price) ELSE Zero
      IN  <<[code |-> code, buy_date |-> buy_date, buy_price |-> buy_price,
             price |-> current_price, ret |-> ret]>>

\* The body of the loop of fetch_stock_data for one non-blank code: the rows it
\* appends to data_list (none when the try block raises).
\* Row keys: code = 代码, buy_date = 买入日, buy_price = 买入价, price = 现价, ret = 收益率
StockRows(code, R) ==
    IF HistoryRaises(R) THEN <<>>
    ELSE
      LET hist == MonthHistory(R)
          p == get_current_price(R)
          current_price == IF p = 0 /\ hist # <<>> THEN Last(hist).Close ELSE p
          buy_price == IF hist # <<>> THEN hist[1].Open ELSE 0
          buy_date == IF hist # <<>> THEN MonthDay(hist[1].day) ELSE NoDate
          ret == IF buy_price # 0 THEN Rat(current_price - buy_price, buy_price) ELSE Zero
      IN  <<[code |-> code, buy_date |-> buy_date, buy_price |-> buy_price,
             price |-> current_price, ret |-> ret]>>

-----------------------------------------------------------------------------
(* The page: one script run per action, the loop of fetch_stock_data one      *)
(* iteration per step.                                                        *)

NoParams == [k \in {} |-> <<>>]
HasCodes(params) == "codes" \in DOMAIN params

\* an initial_value that ignores the URL
InitialValueFromDefault(params) == FALLBACK_CODES

\* initial_value of a run that starts with these query parameters
InitialValue(params) == IF HasCodes(params) THEN params.codes ELSE FALLBACK_CODES

\* value=1.5 of the leverage input
DefaultLeverage == <<3, 2>>
Leverages == {DefaultLeverage, <<2, 1>>}

NoData == [valid |-> FALSE]
NoProvider == [nikkei |-> <<>>, topix |-> <<>>, stocks |-> <<>>]

\* one index card: st.metric with the daily return as value and the MTD return as delta
IndexCard(data) ==
    IF data.valid
    THEN [text |-> "returns", value |-> FormatPct(data.daily_ret),
          delta |-> FormatPct(data.mtd_ret)]
    ELSE [text |-> "fetch failed"]

\* df['收益率'] as a sequence
Returns(df) == [k \in 1..Len(df) |-> df[k].ret]

\* the strategy metrics with the alpha taken from the unleveraged return
StrategyCardUnleveraged(df, lev, topix) ==
    LET avg_ret == Mean(Returns(df))
        total_ret == RMul(avg_ret, lev)
        alpha == IF topix.valid THEN RSub(avg_ret, topix.mtd_ret) ELSE Zero
    IN  [total |-> FormatPct(total_ret), alpha |-> FormatPct(alpha),
         delta_color |-> IF RGreater(total_ret, Zero) THEN "normal" ELSE "inverse"]

\* the two strategy metrics: leveraged return and alpha against TOPIX
StrategyCard(df, lev, topix) ==
    LET avg_ret == Mean(Returns(df))
        total_ret == RMul(avg_ret, lev)
        alpha == IF topix.valid THEN RSub(total_ret, topix.mtd_ret) ELSE Zero
    IN  [total |-> FormatPct(total_ret), alpha |-> FormatPct(alpha),
         delta_color |-> IF RGreater(total_ret, Zero) THEN "normal" ELSE "inverse"]

\* df.sort_values(by='收益率', ascending=False), rows of equal return in their order
RECURSIVE InsertDesc(_, _)
InsertDesc(row, sorted) ==
    IF sorted = <<>> THEN <<row>>
    ELSE IF RGreater(row.ret, Head(sorted).ret) THEN <<row>> \o sorted
    ELSE <<Head(sorted)>> \o InsertDesc(row, Tail(sorted))

RECURSIVE SortDesc(_)
SortDesc(df) ==
    IF df = <<>> THEN <<>>
    ELSE InsertDesc(df[Len(df)], SortDesc(SubSeq(df, 1, Len(df) - 1)))

\* one line of the holdings list
Line(row) ==
    [code |-> row.code, price |-> row.price, ret |-> FormatPct(row.ret),
     color |-> IF RGreater(row.ret, Zero) THEN "red" ELSE "green"]

\* what a run without a click of the button renders: title and footer
QuietScreen(params) == [kind |-> "quiet", hint |-> HasCodes(params)]

\* what the refresh block renders
RefreshScreen(nikkei, topix, df, lev, codes, params) ==
    [kind |-> "refreshed",
     nikkei |-> IndexCard(nikkei),
     topix |-> IndexCard(topix),
     strategy |-> IF df # <<>> THEN <<StrategyCard(df, lev, topix)>> ELSE <<>>,
     lines |-> LET sorted == SortDesc(df) IN [k \in 1..Len(sorted) |-> Line(sorted[k])],
     message |-> IF df # <<>> THEN "none"
                 ELSE IF codes = <<>> THEN "info: enter codes" ELSE "error: fetch failed",
     hint |-> HasCodes(params)]

InitPage ==
    /\ query_params = NoParams
    /\ initial_value = InitialValue(NoParams)
    /\ user_input = InitialValue(NoParams)
    /\ leverage = DefaultLeverage
    /\ pc = "idle"
    /\ clicked = FALSE
    /\ provider = NoProvider
    /\ nikkei_data = NoData
    /\ topix_data = NoData
    /\ i = 0
    /\ data_list = <<>>
    /\ progress = Zero
    /\ screen = QuietScreen(NoParams)

InitIdle == InitPage /\ probe = [fn |-> "none", done |-> TRUE]

\* a script run in which the button is not clicked
QuietRun(text, lev) ==
    /\ pc = "idle"
    /\ initial_value' = InitialValue(query_params)
    /\ user_input' = text
    /\ leverage' = lev
    /\ clicked' = FALSE
    /\ provider' = NoProvider
    /\ nikkei_data' = NoData
    /\ topix_data' = NoData
    /\ i' = 0
    /\ data_list' = <<>>
    /\ progress' = Zero
    /\ screen' = QuietScreen(query_params)
    /\ UNCHANGED <<query_params, pc, probe>>

\* the page is opened or reloaded at its current URL: the widgets take their defaults
LoadPage ==
    /\ pc = "idle"
    /\ QuietRun(InitialValue(query_params), DefaultLeverage)

\* the user types one more character into the text area
TypeChar(Alphabet) ==
    /\ Len(user_input) < MaxLen
    /\ \E c \in Alphabet : QuietRun(Append(user_input, c), leverage)

\* the user empties the text area
ClearText ==
    /\ user_input # <<>>
    /\ QuietRun(<<>>, leverage)

\* the user changes the leverage
SetLeverage ==
    \E lev \in Leverages \ {leverage} : QuietRun(user_input, lev)

\* the button is clicked: the run up to the loop of fetch_stock_data
ClickRefresh(IndexAnswers) ==
    /\ pc = "idle"
    /\ \E rn \in IndexAnswers, rt \in IndexAnswers :
          /\ provider' = [nikkei |-> <<rn>>, topix |-> <<rt>>, stocks |-> <<>>]
          /\ nikkei_data' = fetch_index_data(rn)
          /\ topix_data' = fetch_index_data(rt)
    /\ initial_value' = InitialValue(query_params)
    /\ clicked' = TRUE
    /\ query_params' = [codes |-> clean_codes_str(user_input)]
    /\ i' = 0
    /\ data_list' = <<>>
    /\ progress' = Zero
    /\ screen' = [kind |-> "running"]
    /\ pc' = "stocks"
    /\ UNCHANGED <<user_input, leverage, probe>>

\* one iteration of the loop of fetch_stock_data
StockIteration(StockAnswers) ==
    /\ pc = "stocks"
    /\ i < Len(clean_codes_list(user_input))
    /\ LET codes == clean_codes_list(user_input)
           code == Strip(codes[i + 1])
       IN  IF code = <<>>
           THEN UNCHANGED <<provider, data_list, progress>>
           ELSE \E r \in StockAnswers :
                  /\ provider' = [provider EXCEPT
                                    !.stocks = Append(@, [ticker |-> TickerSymbol(code),
                                                          answers |-> r])]
                  /\ data_list' = data_list \o StockRows(code, r)
                  /\ progress' = <<i + 1, Len(codes)>>
    /\ i' = i + 1
    /\ UNCHANGED <<query_params, initial_value, user_input, leverage, pc, clicked,
                   nikkei_data, topix_data, screen, probe>>

\* fetch_stock_data returns and the run renders the page
Render ==
    /\ pc = "stocks"
    /\ i = Len(clean_codes_list(user_input))
    /\ screen' = RefreshScreen(nikkei_data, topix_data, data_list, leverage,
                               clean_codes_list(user_input), query_params)
    /\ pc' = "idle"
    /\ UNCHANGED <<query_params, initial_value, user_input, leverage, clicked, provider,
                   nikkei_data, topix_data, i, data_list, progress, probe>>

-----------------------------------------------------------------------------
(* Provider answers drawn by the page specifications *)

Full5d == Window(IF now - FiveDays + 1 > FirstDay THEN now - FiveDays + 1 ELSE FirstDay, now)
Stale5d == Window(FirstDay, now - 1)

\* everything answers, today's bars are there
IndexHealthy ==
    [recent |-> Ok(Full5d), start |-> Ok(Window(start_of_month, now)),
     month |-> Ok(Window(FirstDay, now)),
     intraday |-> Ok(IntradayBars(now, MaxSlots)), daily |-> Ok(Full5d)]
\* every call raises
IndexDown ==
    [recent |-> Raised, start |-> Raised, month |-> Raised,
     intraday |-> Raised, daily |-> Raised]
\* every call answers with no rows
IndexEmpty ==
    [recent |-> Ok(<<>>), start |-> Ok(<<>>), month |-> Ok(<<>>),
     intraday |-> Ok(<<>>), daily |-> Ok(<<>>)]

StockOf(R) == [start |-> R.start, month |-> R.month, intraday |-> R.intraday, daily |-> R.daily]
\* no intraday bars and today's daily bar not yet published
StockClosed ==
    [start |-> Ok(Window(start_of_month, now - 1)), month |-> Ok(Window(FirstDay, now - 1)),
     intraday |-> Ok(<<>>), daily |-> Ok(Stale5d)]
\* the month-start history is empty and the 1-month history raises
StockMonthRaises ==
    [start |-> Ok(<<>>), month |-> Raised,
     intraday |-> Ok(IntradayBars(now, 1)), daily |-> Ok(Full5d)]
\* the price calls raise, the histories answer
StockPriceRaises ==
    [start |-> Ok(Window(start_of_month, now)), month |-> Ok(Window(FirstDay, now)),
     intraday |-> Raised, daily |-> Raised]

\* the price calls raise and the histories have no rows
StockBlind ==
    [start |-> Ok(<<>>), month |-> Ok(<<>>), intraday |-> Raised, daily |-> Raised]

FewIndexAnswers == {IndexHealthy, IndexDown}
FewStockAnswers == {StockOf(IndexHealthy), StockOf(IndexDown)}
SomeIndexAnswers == {IndexHealthy, IndexDown, IndexEmpty}
SomeStockAnswers ==
    {StockOf(IndexHealthy), StockOf(IndexDown), StockOf(IndexEmpty),
     StockClosed, StockMonthRaises, StockPriceRaises, StockBlind}

TextAlphabet == {"7", ",", FWC, NL, " "}
CodeAlphabet == {"7", ","}

NextText ==
    \/ LoadPage
    \/ TypeChar(TextAlphabet)
    \/ ClearText
    \/ ClickRefresh(FewIndexAnswers)
    \/ StockIteration(FewStockAnswers)
    \/ Render

NextPortfolio ==
    \/ LoadPage
    \/ TypeChar(CodeAlphabet)
    \/ ClearText
    \/ SetLeverage
    \/ ClickRefresh(SomeIndexAnswers)
    \/ StockIteration(SomeStockAnswers)
    \/ Render

\* the page with the texts a user types, few provider answers
SpecText == InitIdle /\ [][NextText]_vars
\* the page with few texts, more provider answers
SpecPortfolio == InitIdle /\ [][NextPortfolio]_vars

-----------------------------------------------------------------------------
(* The fetch functions on their own: one call on answers drawn from the       *)
(* provider's answer sets.                                                    *)

\* the code the stock probe asks for: "7203"
ProbeCode == SubSeq(FALLBACK_CODES, 1, 4)

InitProbe ==
    /\ InitPage
    /\ probe \in
         {[fn |-> "fetch_index_data", in |-> r, done |-> FALSE] : r \in IndexResponses}
           \cup {[fn |-> "fetch_stock_data", in |-> r, done |-> FALSE] : r \in StockResponses}
           \cup {[fn |-> "get_current_price", in |-> r, done |-> FALSE] : r \in PriceResponses}

CallFetchIndexData ==
    /\ probe.fn = "fetch_index_data"
    /\ ~probe.done
    /\ probe' = [fn |-> probe.fn, in |-> probe.in, done |-> TRUE,
                 out |-> fetch_index_data(probe.in)]
    /\ UNCHANGED pageVars

CallFetchStockData ==
    /\ probe.fn = "fetch_stock_data"
    /\ ~probe.done
    /\ probe' = [fn |-> probe.fn, in |-> probe.in, done |-> TRUE,
                 out |-> StockRows(ProbeCode, probe.in)]
    /\ UNCHANGED pageVars

CallGetCurrentPrice ==
    /\ probe.fn = "get_current_price"
    /\ ~probe.done
    /\ probe' = [fn |-> probe.fn, in |-> probe.in, done |-> TRUE,
                 out |-> get_current_price(probe.in)]
    /\ UNCHANGED pageVars

NextFetch == CallFetchIndexData \/ CallFetchStockData \/ CallGetCurrentPrice

SpecFetch == InitProbe /\ [][NextFetch]_vars

-----------------------------------------------------------------------------
(* Claims about the fetch functions, under SpecFetch *)

\* the opening price of the first trading day of the current month
MonthOpen == OpenOf(start_of_month)

\* the close an answer yields, as a sequence: empty when it raised or has no rows
Usable(answer) ==
    IF answer.status = "ok" /\ answer.rows # <<>> THEN <<Last(answer.rows).Close>> ELSE <<>>

\* the last close of the caller's month history
UsableMonth(R) ==
    IF R.start.status = "ok" /\ R.start.rows # <<>> THEN Usable(R.start)
    ELSE IF R.start.status = "ok" THEN Usable(R.month)
    ELSE <<>>

FirstOr(chain, default) == IF chain = <<>> THEN default ELSE chain[1]

\* C1: a reported non-zero month-to-date return of an index or a holding is
\* (latest price - O) / O with O the opening price of the first trading day of the
\* current month, never the opening price of a day of the previous month.
C1_MtdFromMonthOpen ==
    probe.done =>
      /\ (probe.fn = "fetch_index_data" /\ probe.out.valid /\ probe.out.mtd_ret # Zero)
            => probe.out.mtd_ret = Rat(probe.out.price - MonthOpen, MonthOpen)
      /\ (probe.fn = "fetch_stock_data" /\ probe.out # <<>> /\ probe.out[1].ret # Zero)
            => probe.out[1].ret = Rat(probe.out[1].price - MonthOpen, MonthOpen)

\* C3 as stated: the price of a ticker is the first usable value of the chain
\* 5-minute intraday history, 5-day daily history, last close of the caller's month
\* history, and 0 only when no source of the chain has a usable value.
C3_ChainEndsInMonthHistory ==
    probe.done =>
      LET R == probe.in
          inner == Usable(R.intraday) \o Usable(R.daily)
      IN  /\ probe.fn = "get_current_price" => probe.out = FirstOr(inner, 0)
          /\ (probe.fn = "fetch_index_data" /\ probe.out.valid)
                => probe.out.price = FirstOr(inner \o UsableMonth(R), 0)
          /\ (probe.fn = "fetch_stock_data" /\ probe.out # <<>>)
                => probe.out[1].price = FirstOr(inner \o UsableMonth(R), 0)

\* C3 amended: the price of a ticker is the first usable value of the chain 5-minute
\* intraday history, then the 5-day daily history, which is asked for only when the
\* intraday call returned without raising and without rows, then the last close of a
\* history the caller fetched before: the 5-day history in fetch_index_data, the
\* month history in fetch_stock_data; the price is 0 only when none of these has a
\* usable value.
C3_ChainEndsInCallersHistory ==
    probe.done =>
      LET R == probe.in
          inner == IF R.intraday.status = "raise" THEN <<>>
                   ELSE Usable(R.intraday) \o Usable(R.daily)
      IN  /\ probe.fn = "get_current_price" => probe.out = FirstOr(inner, 0)
          /\ (probe.fn = "fetch_index_data" /\ probe.out.valid)
                => probe.out.price = FirstOr(inner \o Usable(R.recent), 0)
          /\ (probe.fn = "fetch_stock_data" /\ probe.out # <<>>)
                => probe.out[1].price = FirstOr(inner \o UsableMonth(R), 0)

C3_Witness ==
    /\ probe.done
    /\ probe.fn = "fetch_index_data"
    /\ probe.in.intraday = Ok(<<>>)
    /\ probe.in.daily = Ok(<<>>)
    /\ probe.in.recent.rows # <<>>
    /\ probe.in.start.rows # <<>>
    /\ probe.out.valid
    /\ probe.out.price = Last(probe.in.recent.rows).Close

\* C6: fetch_index_data reports valid = TRUE only when some provider query returned
\* rows; when every query returns no rows the result is invalid and the index card
\* shows the fetch-failed text.
C6_ValidNeedsData ==
    (probe.done /\ probe.fn = "fetch_index_data") =>
      LET R == probe.in
          norows == \A f \in DOMAIN R : R[f].rows = <<>>
      IN  /\ probe.out.valid => ~norows
          /\ norows => IndexCard(probe.out).text = "fetch failed"

\* the day the current price of fetch_index_data belongs to
PriceDay(R) ==
    IF R.intraday.status = "ok" /\ R.intraday.rows # <<>> THEN Last(R.intraday.rows).day
    ELSE IF R.intraday.status = "ok" /\ R.daily.status = "ok" /\ R.daily.rows # <<>>
         THEN Last(R.daily.rows).day
    ELSE Last(R.recent.rows).day

\* C7: the daily return of fetch_index_data is measured from the close of the
\* trading day immediately before the day the current price belongs to, and is 0.0
\* with fewer than two rows of 5-day history.
C7_DailyFromPreviousClose ==
    (probe.done /\ probe.fn = "fetch_index_data" /\ probe.out.valid) =>
      LET R == probe.in
      IN  IF Len(R.recent.rows) >= 2
          THEN LET prev == CloseOf(PriceDay(R) - 1)
               IN  probe.out.daily_ret = Rat(probe.out.price - prev, prev)
          ELSE probe.out.daily_ret = Zero

-----------------------------------------------------------------------------
(* Claims about the portfolio, under SpecPortfolio *)

\* the strategy card is on the screen
StrategyShown == screen.kind = "refreshed" /\ screen.strategy # <<>>

\* portfolio return: mean of the holdings' returns times the leverage
PortfolioReturn == RMul(Mean([k \in 1..Len(data_list) |-> data_list[k].ret]), leverage)

\* C2 as stated: whenever the strategy card is displayed, the TOPIX fetch of that
\* refresh has a month-to-date return and the displayed alpha is the portfolio
\* return minus it, whatever the outcome of the TOPIX fetch.
C2_AlphaAlwaysAgainstTopix ==
    StrategyShown =>
      /\ "mtd_ret" \in DOMAIN topix_data
      /\ screen.strategy[1].alpha = FormatPct(RSub(PortfolioReturn, topix_data.mtd_ret))

\* C2 amended: whenever the strategy card is displayed, the displayed alpha is the
\* portfolio return minus the TOPIX month-to-date return of that refresh when
\* fetch_index_data("^TOPX") returned valid = TRUE, and 0.0 when it returned
\* valid = FALSE.
C2_AlphaAgainstValidTopix ==
    StrategyShown =>
      screen.strategy[1].alpha =
        IF topix_data.valid THEN FormatPct(RSub(PortfolioReturn, topix_data.mtd_ret))
        ELSE FormatPct(Zero)

C2_Witness ==
    /\ StrategyShown
    /\ topix_data.valid
    /\ topix_data.mtd_ret # Zero
    /\ Len(data_list) >= 2
    /\ data_list[1].ret # data_list[2].ret
    /\ screen.strategy[1].alpha # screen.strategy[1].total

\* an exception of the provider reaches the except of the loop body
Propagates(r) ==
    \/ r.start.status = "raise"
    \/ r.start.status = "ok" /\ r.start.rows = <<>> /\ r.month.status = "raise"

\* the first n codes without those whose processing raised
RECURSIVE Kept(_, _, _)
Kept(codes, served, n) ==
    IF n = 0 THEN <<>>
    ELSE Kept(codes, served, n - 1)
           \o (IF Propagates(served[n].answers) THEN <<>> ELSE <<codes[n]>>)

\* C4: a provider error while one holding is processed never aborts the refresh: the
\* loop of fetch_stock_data visits every code, and data_list holds exactly one row for
\* each visited code whose processing did not raise, in input order, and none for a
\* code whose processing raised; an exception inside get_current_price does not
\* count, it leaves the price at 0.0 (or at the last close of the month history).
C4_ErrorsSkipOneHolding ==
    clicked =>
      LET codes == clean_codes_list(user_input)
          served == provider.stocks
      IN  /\ i <= Len(codes)
          /\ Len(served) = i
          /\ pc = "idle" => i = Len(codes)
          /\ [k \in 1..Len(data_list) |-> data_list[k].code] = Kept(codes, served, i)
          /\ \A k \in 1..i :
                (~Propagates(served[k].answers) /\ served[k].answers.intraday.status = "raise")
                  => LET row == data_list[Len(Kept(codes, served, k))]
                         hist == IF served[k].answers.start.rows # <<>>
                                 THEN served[k].answers.start.rows
                                 ELSE served[k].answers.month.rows
                     IN  row.price = IF hist = <<>> THEN 0 ELSE Last(hist).Close

C4_Witness ==
    /\ clicked
    /\ pc = "idle"
    /\ \E j, k \in 1..i :
          /\ j < k
          /\ Propagates(provider.stocks[j].answers)
          /\ ~Propagates(provider.stocks[k].answers)
          /\ provider.stocks[k].answers.intraday.status = "raise"
    /\ Len(data_list) = i - 1

-----------------------------------------------------------------------------
(* Claims about the text and the URL, under SpecText *)

\* C5 as stated: nothing written during one run influences a later run, so every
\* run, whatever runs came before it, starts from the initial holdings value of a
\* first run and a run without a click renders what a first run renders.
C5_NothingSurvives ==
    /\ initial_value = FALLBACK_CODES
    /\ screen.kind = "quiet" => ~screen.hint

\* the rows fetch_stock_data builds from the answers served for the first n codes
RECURSIVE RowsServed(_, _, _)
RowsServed(codes, served, n) ==
    IF n = 0 THEN <<>>
    ELSE RowsServed(codes, served, n - 1) \o StockRows(codes[n], served[n].answers)

\* the page of a refresh as a function of the run's text, leverage and provider answers
PageOfInputs ==
    LET codes == clean_codes_list(user_input)
    IN  RefreshScreen(fetch_index_data(provider.nikkei[1]),
                      fetch_index_data(provider.topix[1]),
                      RowsServed(codes, provider.stocks, Len(codes)),
                      leverage, codes, [codes |-> clean_codes_str(user_input)])

\* what a step does with the URL, the initial value and the footer hint
UrlStep ==
    /\ pc = "idle" =>
          initial_value' = IF "codes" \in DOMAIN query_params
                           THEN query_params.codes ELSE FALLBACK_CODES
    /\ pc # "idle" => initial_value' = initial_value
    /\ screen'.kind = "quiet" => (screen'.hint <=> "codes" \in DOMAIN query_params')
    /\ (DOMAIN query_params' # DOMAIN query_params
          \/ ("codes" \in DOMAIN query_params /\ query_params'.codes # query_params.codes))
         => /\ pc = "idle"
            /\ clicked'
            /\ query_params'.codes = clean_codes_str(user_input)

\* C5 amended: the program holds exactly one piece of state that survives a run,
\* st.query_params["codes"]: a run starts from initial_value = that parameter when
\* it is present and FALLBACK_CODES when it is absent, a run without a click shows
\* the footer hint exactly when it is present, and only a click of the refresh
\* button writes it, with clean_codes_str of that run's text; the page a refresh
\* renders is a function of that run's text, leverage and provider answers.
C5_OnlyTheUrlSurvives ==
    /\ [][UrlStep]_vars
    /\ [](screen.kind = "refreshed" => screen = PageOfInputs)

C5_Witness ==
    /\ pc = "idle"
    /\ ~clicked
    /\ initial_value # FALLBACK_CODES
    /\ user_input = initial_value
    /\ initial_value # <<>>

RECURSIVE Flatten(_)
Flatten(parts) == IF parts = <<>> THEN <<>> ELSE Head(parts) \o Flatten(Tail(parts))

RECURSIVE IsSubsequence(_, _)
IsSubsequence(a, b) ==
    IF a = <<>> THEN TRUE
    ELSE IF b = <<>> THEN FALSE
    ELSE IF Head(a) = Head(b) THEN IsSubsequence(Tail(a), Tail(b))
    ELSE IsSubsequence(a, Tail(b))

Separators == {",", FWC, NL}
Count(s, set) == Cardinality({k \in 1..Len(s) : s[k] \in set})
\* the characters of a text that belong to codes
CodeChars(s) == Cardinality({k \in 1..Len(s) : s[k] \notin Separators \cup Whitespace})

\* C8: the cleaned list of the text has no empty element and no element with leading
\* or trailing whitespace, keeps every code character of the text in the order of the
\* text, and cleaning the comma-joined string again gives the same list; the string
\* saved in the URL is a fixed point of the cleaning, so a reload after a refresh
\* starts from the same list of holdings.
C8_CleaningRoundTrip ==
    LET codes == clean_codes_list(user_input)
        joined == clean_codes_str(user_input)
    IN  /\ \A k \in 1..Len(codes) :
              /\ codes[k] # <<>>
              /\ codes[k][1] \notin Whitespace
              /\ Last(codes[k]) \notin Whitespace
              /\ \A j \in 1..Len(codes[k]) : codes[k][j] \notin Separators
        /\ IsSubsequence(Flatten(codes), user_input)
        /\ CodeChars(Flatten(codes)) = CodeChars(user_input)
        /\ clean_codes_list(joined) = codes
        /\ clean_codes_str(joined) = joined
        /\ "codes" \in DOMAIN query_params =>
              clean_codes_str(query_params.codes) = query_params.codes
        /\ clicked => clean_codes_list(InitialValue(query_params)) = codes

C8_Witness ==
    /\ pc = "idle"
    /\ clicked
    /\ Len(clean_codes_list(user_input)) >= 2
    /\ query_params.codes # user_input
    /\ Count(user_input, {FWC, NL}) >= 1

====
